---- MODULE Spec2Model ----
(***************************************************************************)
(* Telephone directory: the menu front-end (cli/phone_directory.py) with   *)
(* its one long-lived connection, and the JSON API (web/app.py) with one   *)
(* connection per request, over the same contacts table.                   *)
(*                                                                         *)
(* Text values are sequences of one-character strings; "CR" and "LF" are   *)
(* the carriage return and the line feed.                                  *)
(*                                                                         *)
(* The engine is PostgreSQL through psycopg2 with its defaults: a          *)
(* connection opens a transaction at its first statement, a statement that *)
(* raises leaves that transaction aborted, and every statement on an       *)
(* aborted transaction raises until commit or rollback ends it. Statements *)
(* read the committed rows (READ COMMITTED); a statement that touches a    *)
(* phone or a row on which another transaction holds an uncommitted write  *)
(* waits for that transaction. The id sequence moves on at every INSERT    *)
(* the engine evaluates, also at one the constraint then refuses. The      *)
(* transaction a SELECT leaves open changes nothing another statement can  *)
(* see, and is not tracked.                                                *)
(***************************************************************************)
EXTENDS Integers, Sequences, FiniteSets, TLC

VARIABLES
    contacts,     \* committed rows of the contacts table
    nextId,       \* next value of the id sequence
    pc,           \* position of main(): "connect", "menu", "returned", "closed", "crashed"
    attempt,      \* connect(): the loop index (a local, 0 outside connect)
    waited,       \* connect(): time slept so far (a local, 0 outside connect)
    connection,   \* PhoneDirectory.connection: "None", "open", "closed"
    txn,          \* transaction of the menu connection: "idle" or "aborted"
    file,         \* content of the export file, or NoFile
    req,          \* the API requests in flight, one record per worker
    out           \* what the step just taken printed, returned or answered

vars == <<contacts, nextId, pc, attempt, waited, connection, txn, file, req, out>>

-----------------------------------------------------------------------------
(* Bounds *)

MaxId == 2          \* the id sequence hands out 1..MaxId

\* the API workers, each serving one request at a time
Workers == {"w1", "w2"}

(* Program constants *)

max_retries == 5
retry_delay == 5

-----------------------------------------------------------------------------
(* Text *)

Whitespace == {" ", "CR", "LF"}

RECURSIVE LStrip(_)
LStrip(s) == IF s # <<>> /\ Head(s) \in Whitespace THEN LStrip(Tail(s)) ELSE s

RECURSIVE RStrip(_)
RStrip(s) ==
    IF s # <<>> /\ s[Len(s)] \in Whitespace THEN RStrip(SubSeq(s, 1, Len(s) - 1)) ELSE s

\* str.strip() of the menu inputs
Strip(s) == RStrip(LStrip(s))

Lower(c) == IF c = "A" THEN "a" ELSE IF c = "B" THEN "b" ELSE IF c = "X" THEN "x" ELSE c

LowerStr(s) == [i \in 1..Len(s) |-> Lower(s[i])]

\* t occurs in s as a contiguous run
Contains(s, t) ==
    \E i \in 0..(Len(s) - Len(t)) : SubSeq(s, i + 1, i + Len(t)) = t

\* value ILIKE '%term%', for terms without the wildcards % and _
ILike(value, term) == Contains(LowerStr(value), LowerStr(term))

\* byte order of the characters, for ORDER BY name
Code(c) ==
    CASE c = "LF" -> 10 [] c = "CR" -> 13 [] c = " " -> 32
      [] c = "1" -> 49 [] c = "2" -> 50
      [] c = "A" -> 65 [] c = "B" -> 66 [] c = "X" -> 88
      [] c = "a" -> 97 [] c = "b" -> 98 [] c = "x" -> 120
      [] OTHER -> 127

RECURSIVE StrLeq(_, _)
StrLeq(s, t) ==
    IF s = <<>> THEN TRUE
    ELSE IF t = <<>> THEN FALSE
    ELSE IF Head(s) = Head(t) THEN StrLeq(Tail(s), Tail(t))
    ELSE Code(Head(s)) < Code(Head(t))

\* str(id) for the ids the sequence hands out
IdStr(i) == <<<<"1">>, <<"2">>, <<"3">>, <<"4">>, <<"5">>, <<"6">>, <<"7">>, <<"8">>, <<"9">>>>[i]

-----------------------------------------------------------------------------
(* The contacts table *)

\* NULL in the table, None in Python: no text
None == <<"None">>

\* Python truthiness of a text or None
Truthy(v) == v # None /\ v # <<>>

Row(id, name, phone, address) ==
    [id |-> id, name |-> name, phone |-> phone, address |-> address, created_at |-> id]

\* a table without the constraint on phone
PhoneNeverTaken(rows, phone, id) == FALSE

\* UNIQUE (phone): another row than `id` already has this phone
PhoneTaken(rows, phone, id) == \E r \in rows : r.phone = phone /\ r.id # id

DB == [contacts |-> contacts, nextId |-> nextId, txn |-> txn]

Res(db, ret, msg) == [db |-> db, ret |-> ret, msg |-> msg]

\* the connection's transaction after a statement raised: nothing rolls it back
AfterError(status) == "aborted"

\* PhoneDirectory.add_contact
add_contact(db, name, phone, address) ==
    IF db.txn = "aborted"
    THEN Res(db, FALSE, "Error adding contact")
    ELSE IF PhoneTaken(db.contacts, phone, 0)
    THEN Res([db EXCEPT !.nextId = @ + 1, !.txn = AfterError(@)], FALSE, "already exists")
    ELSE Res([contacts |-> db.contacts \cup {Row(db.nextId, name, phone, address)},
              nextId |-> db.nextId + 1,
              txn |-> "idle"], TRUE, "added successfully")

Matches(r, term) ==
    \/ ILike(r.name, term)
    \/ ILike(r.phone, term)
    \/ r.address # None /\ ILike(r.address, term)

\* PhoneDirectory.search_contacts: the rows it returns
search_contacts(db, term) ==
    IF db.txn = "aborted" THEN {} ELSE {r \in db.contacts : Matches(r, term)}

\* PhoneDirectory.view_all_contacts: the rows it returns
view_all_contacts(db) == IF db.txn = "aborted" THEN {} ELSE db.contacts

\* PhoneDirectory.update_contact
update_contact(db, contact_id, name, phone, address) ==
    IF db.txn = "aborted"
    THEN Res(db, FALSE, "Error updating contact")
    ELSE IF ~ \E r \in db.contacts : r.id = contact_id
    THEN Res([db EXCEPT !.txn = "idle"], FALSE, "not found")
    ELSE IF PhoneTaken(db.contacts, phone, contact_id)
    THEN Res([db EXCEPT !.txn = AfterError(@)], FALSE, "Error updating contact")
    ELSE Res([db EXCEPT !.txn = "idle",
                        !.contacts = {IF r.id = contact_id
                                      THEN [r EXCEPT !.name = name, !.phone = phone,
                                                     !.address = address]
                                      ELSE r : r \in @}],
             TRUE, "updated successfully")

\* PhoneDirectory.delete_contact
delete_contact(db, contact_id) ==
    IF db.txn = "aborted"
    THEN Res(db, FALSE, "Error deleting contact")
    ELSE IF ~ \E r \in db.contacts : r.id = contact_id
    THEN Res([db EXCEPT !.txn = "idle"], FALSE, "not found")
    ELSE Res([db EXCEPT !.txn = "idle", !.contacts = {r \in @ : r.id # contact_id}],
             TRUE, "deleted successfully")

-----------------------------------------------------------------------------
(* CSV files *)

NoFile == [kind |-> "missing"]
Directory == [kind |-> "dir"]
Csv(header, rows, source) ==
    [kind |-> "file", header |-> header, rows |-> rows, source |-> source]

\* csv.writer writes None as the empty field
CsvField(v) == IF v = None THEN <<>> ELSE v

\* open(filename, 'r') translates "\r\n" and "\r" to "\n" in what is read
RECURSIVE UniversalNewlines(_)
UniversalNewlines(s) ==
    IF s = <<>> THEN <<>>
    ELSE IF Head(s) = "CR"
    THEN <<"LF">> \o UniversalNewlines(IF Len(s) > 1 /\ s[2] = "LF"
                                       THEN Tail(Tail(s)) ELSE Tail(s))
    ELSE <<Head(s)>> \o UniversalNewlines(Tail(s))

HasKey(header, key) == \E i \in 1..Len(header) : header[i] = key

\* csv.DictReader: the row's value under a column, None where the row is short
RowGet(header, fields, key, default) ==
    IF HasKey(header, key)
    THEN LET i == CHOOSE k \in 1..Len(header) :
                      header[k] = key /\ \A j \in (k + 1)..Len(header) : header[j] # key
         IN  IF i <= Len(fields) THEN UniversalNewlines(fields[i]) ELSE None
    ELSE default

\* the rows a SELECT ... ORDER BY name may return: ties come in any order
ByName(rows) ==
    {s \in [1..Cardinality(rows) -> rows] :
        /\ \A i, j \in DOMAIN s : i # j => s[i] # s[j]
        /\ \A i, j \in DOMAIN s : i < j => StrLeq(s[i].name, s[j].name)}

ExportHeader == <<"ID", "Name", "Phone", "Address", "Created At">>

ExportRow(r) ==
    <<IdStr(r.id), CsvField(r.name), CsvField(r.phone), CsvField(r.address),
      IdStr(r.created_at)>>

\* the loop of import_from_csv over the data rows
RECURSIVE ImportRows(_, _, _, _, _)
ImportRows(db, header, rows, imported_count, skipped_count) ==
    IF rows = <<>>
    THEN [db |-> db, imported_count |-> imported_count, skipped_count |-> skipped_count]
    ELSE LET row == Head(rows)
             name == RowGet(header, row, "Name", None)
             phone == RowGet(header, row, "Phone", RowGet(header, row, "phone", <<>>))
             address == RowGet(header, row, "Address", RowGet(header, row, "address", <<>>))
             r == add_contact(db, name, phone, address)
         IN  IF row # <<>> /\ HasKey(header, "Name") /\ Truthy(name) /\ Truthy(phone)
             THEN IF r.ret
                  THEN ImportRows(r.db, header, Tail(rows), imported_count + 1, skipped_count)
                  ELSE ImportRows(r.db, header, Tail(rows), imported_count, skipped_count + 1)
             ELSE ImportRows(db, header, Tail(rows), imported_count, skipped_count)

\* PhoneDirectory.import_from_csv on the file f
import_from_csv(db, f) ==
    IF f.kind = "missing"
    THEN [db |-> db, ret |-> FALSE, msg |-> "not found",
          imported_count |-> 0, skipped_count |-> 0]
    ELSE IF f.kind = "dir"
    THEN [db |-> db, ret |-> FALSE, msg |-> "Error importing contacts",
          imported_count |-> 0, skipped_count |-> 0]
    ELSE LET r == ImportRows(db, f.header, f.rows, 0, 0)
         IN  [db |-> r.db, ret |-> TRUE, msg |-> "Imported",
              imported_count |-> r.imported_count, skipped_count |-> r.skipped_count]

-----------------------------------------------------------------------------
(* The file system *)

ExportPath == "contacts_export.csv"

\* contacts.csv: a duplicate phone in the second row, an unseen one in the third
DupCsv ==
    Csv(<<"Name", "Phone", "Address">>,
        << <<<<"A">>, <<"1">>, <<"x">>>>,
           <<<<"B">>, <<"1">>, <<>>>>,
           <<<<"B">>, <<"2">>, <<>>>> >>, {})

\* lower.csv: the header in lower case
LowerCsv ==
    Csv(<<"name", "phone", "address">>, << <<<<"B">>, <<"2">>, <<>>>> >>, {})

\* odd.csv: a blank line, a row without a name, a short row with "\r" in the name
OddCsv ==
    Csv(<<"Name", "Phone", "Address">>,
        << <<>>,
           <<<<>>, <<"1">>, <<"x">>>>,
           <<<<"A", "CR">>, <<"1">>>> >>, {})

FileAt(path) ==
    CASE path = ExportPath -> file
      [] path = "contacts.csv" -> DupCsv
      [] path = "lower.csv" -> LowerCsv
      [] path = "odd.csv" -> OddCsv
      [] path = "/" -> Directory
      [] OTHER -> NoFile

\* the filenames typed at the menu
ImportPaths == {"", ExportPath, "contacts.csv", "lower.csv", "odd.csv", "/", "nofile.csv"}
ExportPaths == {"", ExportPath, "/"}

\* the filenames typed while the API is serving as well
SharedImportPaths == {"", "contacts.csv", "nofile.csv"}
SharedExportPaths == {"/"}

-----------------------------------------------------------------------------
(* What the user types and what the API clients send *)

Missing == <<"Missing">>

MenuNames == {<<" ">>, <<"A">>}
MenuPhones == {<<"1">>, <<"2">>}
MenuAddresses == {<<>>, <<"x">>}
UpdateAddresses == {<<>>}
MenuIds == {<<"x">>} \cup {IdStr(i) : i \in 1..MaxId}
SearchTerms == {<<>>, <<"a">>}

ApiNames == {Missing, <<>>, <<"B">>}
ApiPhones == {Missing, <<"1">>}
ApiAddresses == {Missing}

-----------------------------------------------------------------------------
(* Observations *)

NoOut ==
    [src |-> "none", op |-> "none", ret |-> FALSE, msg |-> "", status |-> 0,
     name |-> <<>>, phone |-> <<>>, path |-> "", seen |-> FALSE, empty |-> FALSE,
     unchanged |-> TRUE, imported_count |-> 0, skipped_count |-> 0,
     raised |-> FALSE, attempts |-> 0, waited |-> 0, n |-> 0]

Menu(op, ret, msg) == [NoOut EXCEPT !.src = "menu", !.op = op, !.ret = ret, !.msg = msg]

Api(op, status, msg) == [NoOut EXCEPT !.src = "api", !.op = op, !.status = status, !.msg = msg]

-----------------------------------------------------------------------------
(* Statements of concurrent transactions *)

NoWrite == [kind |-> "none", row |-> Row(0, <<>>, <<>>, <<>>), phones |-> {}, ids |-> {}]

\* a statement on these phones and ids waits while another transaction holds
\* an uncommitted write on one of them
Blocked(w, phones, ids) ==
    \E v \in Workers \ {w} :
        req[v].pending.phones \cap phones # {} \/ req[v].pending.ids \cap ids # {}

PhonesOf(rows, ids) == {r.phone : r \in {q \in rows : q.id \in ids}}

SetDB(db) ==
    /\ contacts' = db.contacts
    /\ nextId' = db.nextId
    /\ txn' = db.txn

-----------------------------------------------------------------------------
(* PhoneDirectory.connect and the start of main *)

\* sleeping after the last attempt as well
ShouldRetryOnceMore(i) == i < max_retries

\* line 43: sleep and try again, or give up
ShouldRetry(i) == i < max_retries - 1

Init ==
    /\ contacts = {}
    /\ nextId = 1
    /\ pc = "connect"
    /\ attempt = 0
    /\ waited = 0
    /\ connection = "None"
    /\ txn = "idle"
    /\ file = NoFile
    /\ req = [w \in Workers |-> [pc |-> "idle", connOpen |-> FALSE, pending |-> NoWrite]]
    /\ out = NoOut

\* one pass of the loop of connect(): psycopg2.connect succeeds
connect_ok ==
    /\ pc = "connect"
    /\ attempt < max_retries
    /\ connection' = "open"
    /\ pc' = "menu"
    /\ out' = [Menu("connect", TRUE, "Connected") EXCEPT
                  !.attempts = attempt + 1, !.waited = waited]
    /\ attempt' = 0
    /\ waited' = 0
    /\ UNCHANGED <<contacts, nextId, txn, file, req>>

\* one pass of the loop of connect(): psycopg2.connect raises; or the loop
\* has run out, connect returns None and main returns at line 228
connect_fail ==
    /\ pc = "connect"
    /\ IF attempt >= max_retries
       THEN /\ pc' = "returned"
            /\ out' = [Menu("connect", FALSE, "") EXCEPT
                          !.attempts = attempt, !.waited = waited]
            /\ attempt' = 0
            /\ waited' = 0
       ELSE IF ShouldRetry(attempt)
       THEN /\ waited' = waited + retry_delay
            /\ attempt' = attempt + 1
            /\ out' = Menu("attempt", FALSE, "Retrying")
            /\ UNCHANGED pc
       ELSE /\ pc' = "returned"
            /\ out' = [Menu("connect", FALSE, "Please ensure") EXCEPT
                          !.attempts = attempt + 1, !.waited = waited]
            /\ attempt' = 0
            /\ waited' = 0
    /\ UNCHANGED <<contacts, nextId, connection, txn, file, req>>

-----------------------------------------------------------------------------
(* The menu loop of main *)

\* int(input(...)): 0 stands for ValueError
ParseInt(s) == IF \E i \in 1..9 : IdStr(i) = s THEN CHOOSE i \in 1..9 : IdStr(i) = s ELSE 0

\* choice 1
main_add ==
    /\ pc = "menu"
    /\ \E rawName \in MenuNames, rawPhone \in MenuPhones, rawAddress \in MenuAddresses :
        LET name == Strip(rawName)
            phone == Strip(rawPhone)
            address == Strip(rawAddress)
            r == add_contact(DB, name, phone, address)
        IN  IF Truthy(name) /\ Truthy(phone)
            THEN /\ ~ Blocked("menu", {phone}, {})
                 /\ r.db.nextId <= MaxId + 1
                 /\ SetDB(r.db)
                 /\ out' = [Menu("add", r.ret, r.msg) EXCEPT
                               !.name = name, !.phone = phone,
                               !.seen = PhoneTaken(contacts, phone, 0),
                               !.unchanged = (r.db.contacts = contacts)]
            ELSE /\ out' = Menu("add", FALSE, "Name and phone are required")
                 /\ UNCHANGED <<contacts, nextId, txn>>
    /\ UNCHANGED <<pc, attempt, waited, connection, file, req>>

\* choice 2
main_search ==
    /\ pc = "menu"
    /\ \E raw \in SearchTerms :
        LET search_term == Strip(raw)
        IN  IF Truthy(search_term)
            THEN /\ out' = [Menu("search", txn # "aborted", "Found") EXCEPT
                               !.n = Cardinality(search_contacts(DB, search_term))]
            ELSE /\ out' = Menu("search", FALSE, "Please enter a search term")
    /\ UNCHANGED <<contacts, nextId, pc, attempt, waited, connection, txn, file, req>>

\* choice 3
main_view ==
    /\ pc = "menu"
    /\ out' = [Menu("view", txn # "aborted", "Total") EXCEPT
                  !.n = Cardinality(view_all_contacts(DB))]
    /\ UNCHANGED <<contacts, nextId, pc, attempt, waited, connection, txn, file, req>>

\* choice 4
main_update ==
    /\ pc = "menu"
    /\ \E rawId \in MenuIds, rawName \in MenuNames, rawPhone \in MenuPhones,
          rawAddress \in UpdateAddresses :
        LET contact_id == ParseInt(rawId)
            name == Strip(rawName)
            phone == Strip(rawPhone)
            address == Strip(rawAddress)
            r == update_contact(DB, contact_id, name, phone, address)
        IN  IF contact_id = 0
            THEN /\ out' = Menu("update", FALSE, "Please enter a valid ID number")
                 /\ UNCHANGED <<contacts, nextId, txn>>
            ELSE IF Truthy(name) /\ Truthy(phone)
            THEN /\ ~ Blocked("menu", {phone} \cup PhonesOf(contacts, {contact_id}),
                              {contact_id})
                 /\ SetDB(r.db)
                 /\ out' = [Menu("update", r.ret, r.msg) EXCEPT
                               !.name = name, !.phone = phone,
                               !.seen = PhoneTaken(contacts, phone, contact_id),
                               !.unchanged = (r.db.contacts = contacts)]
            ELSE /\ out' = Menu("update", FALSE, "Name and phone are required")
                 /\ UNCHANGED <<contacts, nextId, txn>>
    /\ UNCHANGED <<pc, attempt, waited, connection, file, req>>

\* choice 5
main_delete ==
    /\ pc = "menu"
    /\ \E rawId \in MenuIds, confirm \in {"y", "n"} :
        LET contact_id == ParseInt(rawId)
            r == delete_contact(DB, contact_id)
        IN  IF contact_id = 0
            THEN /\ out' = Menu("delete", FALSE, "Please enter a valid ID number")
                 /\ UNCHANGED <<contacts, nextId, txn>>
            ELSE IF confirm = "y"
            THEN /\ ~ Blocked("menu", PhonesOf(contacts, {contact_id}), {contact_id})
                 /\ SetDB(r.db)
                 /\ out' = [Menu("delete", r.ret, r.msg) EXCEPT
                               !.unchanged = (r.db.contacts = contacts)]
            ELSE /\ out' = Menu("delete", FALSE, "Deletion cancelled")
                 /\ UNCHANGED <<contacts, nextId, txn>>
    /\ UNCHANGED <<pc, attempt, waited, connection, file, req>>

\* choice 6: PhoneDirectory.export_to_csv; OSError from open() is not caught
\* there, nor in main
main_export(paths) ==
    /\ pc = "menu"
    /\ \E raw \in paths :
        LET filename == IF raw = "" THEN ExportPath ELSE raw
        IN  IF view_all_contacts(DB) = {}
            THEN /\ out' = [Menu("export", FALSE, IF txn = "aborted"
                                                  THEN "Error fetching contacts"
                                                  ELSE "No contacts to export") EXCEPT
                               !.path = filename]
                 /\ UNCHANGED <<pc, file>>
            ELSE IF FileAt(filename).kind = "dir"
            THEN /\ out' = [Menu("export", FALSE, "IsADirectoryError") EXCEPT
                               !.path = filename, !.raised = TRUE]
                 /\ pc' = "crashed"
                 /\ UNCHANGED file
            ELSE /\ \E rows \in ByName(contacts) :
                        file' = Csv(ExportHeader, [i \in DOMAIN rows |-> ExportRow(rows[i])],
                                    contacts)
                 /\ out' = [Menu("export", TRUE, "Exported") EXCEPT
                               !.path = filename, !.n = Cardinality(contacts)]
                 /\ UNCHANGED pc
    /\ UNCHANGED <<contacts, nextId, attempt, waited, connection, txn, req>>

\* choice 7: PhoneDirectory.import_from_csv
main_import(paths) ==
    /\ pc = "menu"
    /\ \E raw \in paths :
        LET r == import_from_csv(DB, FileAt(raw))
        IN  IF raw = ""
            THEN /\ out' = Menu("import", FALSE, "Please enter a filename")
                 /\ UNCHANGED <<contacts, nextId, txn>>
            ELSE /\ \A w \in Workers : req[w].pending = NoWrite
                 /\ r.db.nextId <= MaxId + 1
                 /\ SetDB(r.db)
                 /\ out' = [Menu("import", r.ret, r.msg) EXCEPT
                               !.path = raw, !.empty = (contacts = {}),
                               !.imported_count = r.imported_count,
                               !.skipped_count = r.skipped_count]
    /\ UNCHANGED <<pc, attempt, waited, connection, file, req>>

\* choice 8: leave the loop, directory.close()
main_exit ==
    /\ pc = "menu"
    /\ pc' = "closed"
    /\ connection' = IF connection = "open" THEN "closed" ELSE connection
    /\ out' = Menu("exit", TRUE, "Goodbye")
    /\ UNCHANGED <<contacts, nextId, attempt, waited, txn, file, req>>

\* any other choice
main_invalid ==
    /\ pc = "menu"
    /\ out' = Menu("invalid", FALSE, "Invalid choice")
    /\ UNCHANGED <<contacts, nextId, pc, attempt, waited, connection, txn, file, req>>

-----------------------------------------------------------------------------
(* The API: web/app.py, one connection per request *)

Idle == [pc |-> "idle", connOpen |-> FALSE, pending |-> NoWrite]

\* POST and PUT: the check of the body before any connection is opened
BodyOk(name, phone) == name # Missing /\ phone # Missing

\* POST /api/contacts or PUT /api/contacts/<id> with a body the handler rejects
api_reject(w) ==
    /\ req[w].pc = "idle"
    /\ \E op \in {"POST", "PUT"}, name \in ApiNames, phone \in ApiPhones :
        /\ ~ BodyOk(name, phone)
        /\ out' = Api(op, 400, "Name and phone are required")
    /\ UNCHANGED <<contacts, nextId, pc, attempt, waited, connection, txn, file, req>>

\* get_db_connection(): called before the handler's try block
api_connect(w) ==
    /\ req[w].pc = "idle"
    /\ \/ /\ req' = [req EXCEPT ![w] = [pc |-> "open", connOpen |-> TRUE,
                                        pending |-> NoWrite]]
          /\ out' = Api("connect", 0, "")
       \/ /\ out' = [Api("connect", 500, "Database connection error") EXCEPT
                        !.raised = TRUE]
          /\ UNCHANGED req
    /\ UNCHANGED <<contacts, nextId, pc, attempt, waited, connection, txn, file>>

\* the except and finally clauses of a handler: answer and close the connection
Answer(w, o) ==
    /\ req' = [req EXCEPT ![w] = Idle]
    /\ out' = o

\* the statement ran: its write waits for the commit
Hold(w, kind, row, phones, ids) ==
    /\ req' = [req EXCEPT ![w].pc = "executed",
                          ![w].pending = [kind |-> kind, row |-> row,
                                          phones |-> phones, ids |-> ids]]
    /\ out' = Api("execute", 0, "")

\* add_contact: the INSERT
api_add_contact(w) ==
    /\ req[w].pc = "open"
    /\ \E name \in ApiNames, phone \in ApiPhones, a \in ApiAddresses :
        LET address == IF a = Missing THEN <<>> ELSE a
        IN  /\ BodyOk(name, phone)
            /\ ~ Blocked(w, {phone}, {})
            /\ nextId <= MaxId
            /\ nextId' = nextId + 1
            /\ IF PhoneTaken(contacts, phone, 0)
               THEN Answer(w, [Api("POST", 400, "Phone number already exists") EXCEPT
                                  !.name = name, !.phone = phone, !.seen = TRUE])
               ELSE Hold(w, "ins", Row(nextId, name, phone, address), {phone}, {})
    /\ UNCHANGED <<contacts, pc, attempt, waited, connection, txn, file>>

\* update_contact: the UPDATE; with no such row, the commit and the 404
api_update_contact(w) ==
    /\ req[w].pc = "open"
    /\ \E contact_id \in 1..MaxId, name \in ApiNames, phone \in ApiPhones,
          a \in ApiAddresses :
        LET address == IF a = Missing THEN <<>> ELSE a
            old == {r \in contacts : r.id = contact_id}
            new == CHOOSE r \in old : TRUE
        IN  /\ BodyOk(name, phone)
            /\ ~ Blocked(w, {phone} \cup PhonesOf(contacts, {contact_id}), {contact_id})
            /\ IF old = {}
               THEN Answer(w, Api("PUT", 404, "Contact not found"))
               ELSE IF PhoneTaken(contacts, phone, contact_id)
               THEN Answer(w, [Api("PUT", 500, "IntegrityError") EXCEPT
                                  !.name = name, !.phone = phone, !.seen = TRUE])
               ELSE Hold(w, "upd",
                         [new EXCEPT !.name = name, !.phone = phone, !.address = address],
                         {phone, new.phone}, {contact_id})
    /\ UNCHANGED <<contacts, nextId, pc, attempt, waited, connection, txn, file>>

\* delete_contact: the DELETE; with no such row, the commit and the 404
api_delete_contact(w) ==
    /\ req[w].pc = "open"
    /\ \E contact_id \in 1..MaxId :
        LET old == {r \in contacts : r.id = contact_id}
        IN  /\ ~ Blocked(w, PhonesOf(contacts, {contact_id}), {contact_id})
            /\ IF old = {}
               THEN Answer(w, Api("DELETE", 404, "Contact not found"))
               ELSE Hold(w, "del", CHOOSE r \in old : TRUE,
                         PhonesOf(contacts, {contact_id}), {contact_id})
    /\ UNCHANGED <<contacts, nextId, pc, attempt, waited, connection, txn, file>>

\* get_contacts: the SELECT and the answer
api_get_contacts(w) ==
    /\ req[w].pc = "open"
    /\ \E search \in SearchTerms :
        Answer(w, [Api("GET", 200, "") EXCEPT
                      !.n = IF search # <<>>
                            THEN Cardinality({r \in contacts : Matches(r, search)})
                            ELSE Cardinality(contacts)])
    /\ UNCHANGED <<contacts, nextId, pc, attempt, waited, connection, txn, file>>

\* conn.commit(), the answer and the finally clause
api_commit(w) ==
    /\ req[w].pc = "executed"
    /\ LET p == req[w].pending
       IN  /\ contacts' =
                CASE p.kind = "ins" -> contacts \cup {p.row}
                  [] p.kind = "upd" -> {r \in contacts : r.id # p.row.id} \cup {p.row}
                  [] OTHER -> {r \in contacts : r.id # p.row.id}
           /\ Answer(w, CASE p.kind = "ins" ->
                               [Api("POST", 201, "Contact added successfully!") EXCEPT
                                   !.name = p.row.name, !.phone = p.row.phone]
                          [] p.kind = "upd" ->
                               [Api("PUT", 200, "Contact updated successfully!") EXCEPT
                                   !.name = p.row.name, !.phone = p.row.phone]
                          [] OTHER -> Api("DELETE", 200, "Contact deleted successfully!"))
    /\ UNCHANGED <<nextId, pc, attempt, waited, connection, txn, file>>

-----------------------------------------------------------------------------

Workers_step ==
    \E w \in Workers :
        \/ api_reject(w)
        \/ api_connect(w)
        \/ api_add_contact(w)
        \/ api_update_contact(w)
        \/ api_delete_contact(w)
        \/ api_get_contacts(w)
        \/ api_commit(w)

\* both front-ends on the one table
Next ==
    \/ connect_ok
    \/ connect_fail
    \/ main_add
    \/ main_search
    \/ main_view
    \/ main_update
    \/ main_delete
    \/ main_export(SharedExportPaths)
    \/ main_import(SharedImportPaths)
    \/ main_exit
    \/ main_invalid
    \/ Workers_step

Spec == Init /\ [][Next]_vars

\* the menu front-end alone, with its CSV files
NextMenu ==
    \/ connect_ok
    \/ connect_fail
    \/ main_add
    \/ main_search
    \/ main_view
    \/ main_update
    \/ main_delete
    \/ main_export(ExportPaths)
    \/ main_import(ImportPaths)
    \/ main_exit
    \/ main_invalid

SpecMenu == Init /\ [][NextMenu]_vars

\* the CSV round trip over contacts that came in through either front-end
NextCsv ==
    \/ connect_ok
    \/ main_add
    \/ main_delete
    \/ main_export({""})
    \/ main_import({ExportPath})
    \/ Workers_step

SpecCsv == Init /\ [][NextCsv]_vars

-----------------------------------------------------------------------------
(* Properties *)

MainEnded == pc \in {"returned", "closed", "crashed"}

\* the data rows of a CSV file that import_from_csv hands to add_contact
Eligible(f) ==
    {i \in 1..Len(f.rows) :
        /\ f.rows[i] # <<>>
        /\ Truthy(RowGet(f.header, f.rows[i], "Name", None))
        /\ Truthy(RowGet(f.header, f.rows[i], "Phone", RowGet(f.header, f.rows[i], "phone", <<>>)))}

Stored(phone) == \E r \in contacts : r.phone = phone

Triples(rows) == {<<r.name, r.phone, r.address>> : r \in rows}

\* C1: no two stored contacts share a phone, whatever the menu and the
\* concurrent API requests have done.
C1_UniquePhone == \A r, q \in contacts : r.phone = q.phone => r = q

\* C1: two contacts are stored and a write that would have given a second row
\* the phone of the first has just been refused.
C1_Witness == Cardinality(contacts) = 2 /\ out.seen /\ out.op \in {"update", "PUT"}

\* C2: an add of a non-empty name and a phone no stored contact has succeeds,
\* whatever came before, and a search for the phone then returns exactly the
\* contact just added.
C2_AddThenSearch ==
    (out.src = "menu" /\ out.op = "add" /\ Truthy(out.name) /\ Truthy(out.phone)
        /\ ~ out.seen)
    => /\ out.ret
       /\ \E r \in contacts :
            /\ search_contacts(DB, out.phone) = {r}
            /\ r.name = out.name
            /\ r.phone = out.phone

\* C3: an add with a phone a stored contact has ends in the duplicate-phone
\* outcome (menu: "already exists" and False; API: 400 "Phone number already
\* exists") and leaves the stored contacts as they were.
C3_DuplicateAdd ==
    /\ (out.src = "menu" /\ out.op = "add" /\ out.seen)
       => ~ out.ret /\ out.msg = "already exists" /\ out.unchanged
    /\ (out.src = "api" /\ out.op = "POST" /\ out.seen)
       => out.status = 400 /\ out.msg = "Phone number already exists" /\ out.unchanged

\* C4: import_from_csv returns success, every row it hands to add_contact is
\* counted once as imported or skipped, and a failing row does not keep a later
\* row with an unseen phone out of the store: when the import returns, the
\* phone of every such row is stored.
C4_ImportContinues ==
    (out.op = "import" /\ FileAt(out.path).kind = "file")
    => /\ out.ret
       /\ out.imported_count + out.skipped_count = Cardinality(Eligible(FileAt(out.path)))
       /\ \A i \in Eligible(FileAt(out.path)) :
            Stored(RowGet(FileAt(out.path).header, FileAt(out.path).rows[i], "Phone",
                          RowGet(FileAt(out.path).header, FileAt(out.path).rows[i],
                                 "phone", <<>>)))

\* C5: importing the exported file into an empty store succeeds with
\* imported_count the number of exported contacts and skipped_count 0, and
\* the store then holds the exported (name, phone, address) triples.
C5_RoundTrip ==
    (out.op = "import" /\ out.path = ExportPath /\ file.kind = "file" /\ out.empty)
    => /\ out.ret
       /\ out.imported_count = Cardinality(file.source)
       /\ out.skipped_count = 0
       /\ Triples(contacts) = Triples(file.source)

\* C6: the file with the header name,phone,address is imported like the file
\* with the header Name,Phone,Address: each of its data rows with a name and a
\* phone is counted, and its phone is stored when the import returns.
C6_HeaderAnyCase ==
    (out.op = "import" /\ out.path = "lower.csv")
    => /\ out.ret
       /\ out.imported_count + out.skipped_count = Len(LowerCsv.rows)
       /\ \A i \in 1..Len(LowerCsv.rows) : Stored(LowerCsv.rows[i][2])

\* what connect has done so far and what it reports when it returns
ConnectBounded ==
    /\ attempt <= max_retries - 1
    /\ pc = "connect" => connection = "None" /\ waited = retry_delay * attempt
    /\ pc # "connect" => attempt = 0 /\ waited = 0
    /\ connection = "open" => pc \in {"menu", "crashed"}
    /\ (out.op = "connect" /\ out.ret)
       => /\ out.attempts \in 1..max_retries
          /\ out.waited = retry_delay * (out.attempts - 1)
          /\ connection = "open"
          /\ pc = "menu"
    /\ (out.op = "connect" /\ ~ out.ret)
       => /\ out.attempts = max_retries
          /\ out.waited = retry_delay * (max_retries - 1)
    /\ pc = "returned"
       => connection = "None" /\ out.op = "connect" /\ ~ out.ret

\* C7: connect makes at most max_retries attempts, each pass of its loop either
\* ending it or being the next attempt; it has slept retry_delay after each
\* failed attempt but the last, stops at the first attempt that succeeds with
\* the connection open, and after max_retries failures leaves no connection,
\* upon which main returns without a menu action.
C7_ConnectTerminates ==
    /\ []ConnectBounded
    /\ [][pc = "connect" => (pc' # "connect" \/ attempt' = attempt + 1)]_vars

\* C7: the fifth attempt has failed and main has returned.
C7_Witness == pc = "returned" /\ out.attempts = max_retries /\ connection = "None"

\* C8: no failure of the store or of a file escapes a menu action or an API
\* handler, and the menu loop goes on.
C8_NoEscape == ~ out.raised /\ pc # "crashed"

\* C9: when main has ended the menu connection is not left open, and an API
\* worker that has answered holds no open connection.
C9_AllClosed ==
    /\ MainEnded => connection # "open"
    /\ \A w \in Workers : req[w].pc = "idle" => ~ req[w].connOpen

\* C10: every stored contact has a non-empty name and a non-empty phone.
C10_NonEmpty == \A r \in contacts : Truthy(r.name) /\ Truthy(r.phone)

====
